---- MODULE Spec2Model ----
(***************************************************************************)
(* Model of the image optimizer of src/src/lib.rs: the cache key           *)
(* (Resize::to_string + image name), the content type, the                 *)
(* open -> resize -> crop -> encode pipeline of ImageOptimizer::get_image, *)
(* the shared DashMap cache and the two HTTP adapters.                     *)
(*                                                                         *)
(* Strings are sequences of one-character strings, so that concatenation,  *)
(* split('.') and decimal formatting are computed as the code computes     *)
(* them.  Option<T> is a sequence of length at most one.                   *)
(***************************************************************************)
EXTENDS Integers, Sequences, FiniteSets, TLC

VARIABLES
    files,      \* the source directory: image name -> file
    cache,      \* ImageOptimizer.cache: key -> encoded bytes
    pc,         \* per request task: position in the handler / get_image
    req,        \* per request task: [image, resize] of the current request
    ctype,      \* per request task: content_type computed by the handler
    enc,        \* per request task: bytes encoded on a miss, before cache.insert
    result,     \* per request task: the Result returned by get_image
    cause,      \* per request task: which `?` of get_image produced the Err
    resp,       \* per request task: the HTTP response of the handler
    ncalls,     \* number of requests started
    nfileops,   \* number of changes made to the source directory
    returned,   \* history: [image, resize, bytes] of every Ok return on an unmodified file
    everReadable, \* history: images under which a readable file has existed
    modified,   \* history: images whose file changed after start
    kin,        \* pure-function probes: the inputs drawn
    kout,       \* pure-function probes: the outputs computed
    kpc         \* pure-function probes: position

vars == <<files, cache, pc, req, ctype, enc, result, cause, resp, ncalls,
          nfileops, returned, everReadable, modified, kin, kout, kpc>>

mainVars == <<files, cache, pc, req, ctype, enc, result, cause, resp, ncalls,
              nfileops, returned, everReadable, modified>>

probeVars == <<kin, kout, kpc>>

----------------------------------------------------------------------------
(* Option<T> *)

None == << >>

Some(v) == <<v>>

is_some(o) == o # None

unwrap_or(o, d) == IF o = None THEN d ELSE o[1]

----------------------------------------------------------------------------
(* Program constants *)

\* u16::MAX, the default of an absent width, height, cwidth or cheight
U16MAX == 65535

\* the default webp quality
DefaultQuality == 85

\* ImageOptimizer::CACHE_CONTROL
CACHE_CONTROL == "public, max-age=31536000, immutable"

----------------------------------------------------------------------------
(* Strings *)

DigitChars == <<"0", "1", "2", "3", "4", "5", "6", "7", "8", "9">>

\* format!("{}", n) of an unsigned integer
RECURSIVE Dec(_)
Dec(n) ==
    IF n < 10 THEN <<DigitChars[n + 1]>>
    ELSE Dec(n \div 10) \o <<DigitChars[(n % 10) + 1]>>

\* the largest index of character c in s, 0 when s has none
LastIndexOf(s, c) ==
    IF \E i \in 1..Len(s) : s[i] = c
    THEN CHOOSE i \in 1..Len(s) : s[i] = c /\ \A j \in (i + 1)..Len(s) : s[j] # c
    ELSE 0

\* image.split('.').last(): split always yields at least one piece, so
\* last() is Some(text after the last '.'), or Some(the whole string) when
\* the string holds no '.'
SplitLast(image) ==
    Some(SubSeq(image, LastIndexOf(image, ".") + 1, Len(image)))

\* image.split('.').last().unwrap_or("jpg")
ImageType(image) == unwrap_or(SplitLast(image), <<"j", "p", "g">>)

----------------------------------------------------------------------------
(* Resize (the query parameters) and the cache key *)

EmptyResize ==
    [webp |-> None, quality |-> None, width |-> None, height |-> None,
     cx |-> None, cy |-> None, cwidth |-> None, cheight |-> None]

\* the tag a present numeric field pushes: prefix followed by its value
Tag(prefix, o) == IF is_some(o) THEN prefix \o Dec(o[1]) ELSE << >>

\* Resize::to_string
to_string(resize) ==
    (IF is_some(resize.webp) THEN <<"w", "e", "b", "p">> ELSE << >>)
    \o Tag(<<"q">>, resize.quality)
    \o Tag(<<"w">>, resize.width)
    \o Tag(<<"h">>, resize.height)
    \o Tag(<<"c", "x">>, resize.cx)
    \o Tag(<<"c", "y">>, resize.cy)
    \o Tag(<<"c", "w">>, resize.cwidth)
    \o Tag(<<"c", "h">>, resize.cheight)

\* key(image, resize)
key(image, resize) == to_string(resize) \o image

\* resize.webp.unwrap_or(false)
WebpRequested(resize) == unwrap_or(resize.webp, FALSE)

ImagePrefix == <<"i", "m", "a", "g", "e", "/">>

\* parse_content_type(resize, image)
parse_content_type(resize, image) ==
    IF WebpRequested(resize)
    THEN ImagePrefix \o <<"w", "e", "b", "p">>
    ELSE ImagePrefix \o ImageType(image)

\* content_type.parse::<HeaderValue>(): a header value holds no control
\* character such as a line feed
HeaderValueOk(value) == \A i \in 1..Len(value) : value[i] # "\n"

----------------------------------------------------------------------------
(* Wide arithmetic: products of two dimensions exceed 32 bits, so a product *)
(* is kept as <<hi, lo>> standing for hi * 256 + lo.                        *)

WideMul(a, d) ==
    LET lo == (a % 256) * d
        hi == (a \div 256) * d
    IN  <<hi + (lo \div 256), lo % 256>>

WideAdd(p, m) == <<p[1] + ((p[2] + m) \div 256), (p[2] + m) % 256>>

WideLeq(p, q) == p[1] < q[1] \/ (p[1] = q[1] /\ p[2] <= q[2])

\* round(p / c) for c > 0, halves rounded away from zero as f64::round does
WideDivRound(p, c) ==
    LET lo == 2 * p[2] + c
        hi == 2 * p[1] + (lo \div 256)
        d  == 2 * c
    IN  (hi \div d) * 256 + (((hi % d) * 256 + (lo % 256)) \div d)

Max(a, b) == IF a >= b THEN a ELSE b

Min(a, b) == IF a <= b THEN a ELSE b

----------------------------------------------------------------------------
(* The pipeline of get_image on a cache miss *)

NoImage == [cid |-> "none", color |-> "none", w |-> 0, h |-> 0, ops |-> << >>]

NoBytes == [fmt |-> "none", quality |-> None, im |-> NoImage]

\* Path::extension of dir.join(image): the text after the last '.', none
\* when the name holds no '.' or only a leading one
PathExtension(image) ==
    IF LastIndexOf(image, ".") <= 1 THEN None
    ELSE Some(SubSeq(image, LastIndexOf(image, ".") + 1, Len(image)))

\* the extensions image::open accepts (it takes the format from the path)
DecodableExtensions ==
    { <<"j", "p", "g">>, <<"j", "p", "e", "g">>, <<"p", "n", "g">>,
      <<"g", "i", "f">>, <<"w", "e", "b", "p">>, <<"b", "m", "p">> }

\* image::open(self.dir.join(image)).map_err(|_| ImageNotFound)
OpenImage(fs, image) ==
    IF /\ fs[image].state = "image"
       /\ is_some(PathExtension(image))
       /\ PathExtension(image)[1] \in DecodableExtensions
    THEN [ok |-> TRUE,
          im |-> [cid |-> fs[image].cid, color |-> fs[image].color,
                  w |-> fs[image].w, h |-> fs[image].h, ops |-> << >>]]
    ELSE [ok |-> FALSE, im |-> NoImage]

\* the dimensions DynamicImage::resize scales to: the largest size of the
\* source's aspect ratio inside nwidth x nheight, no edge below one pixel
resize_dimensions(width, height, nwidth, nheight) ==
    IF WideLeq(WideMul(nwidth, height), WideMul(nheight, width))
    THEN \* the width ratio is the smaller: ratio = nwidth / width
         <<Max(nwidth, 1), Max(WideDivRound(WideMul(height, nwidth), width), 1)>>
    ELSE \* ratio = nheight / height
         <<Max(WideDivRound(WideMul(width, nheight), height), 1), Max(nheight, 1)>>

\* im.resize(width or u16::MAX, height or u16::MAX, Lanczos3)
dyn_resize(im, nwidth, nheight) ==
    LET d == resize_dimensions(im.w, im.h, nwidth, nheight)
    IN  [im EXCEPT !.w = d[1], !.h = d[2],
                   !.ops = Append(im.ops, <<"resize", d[1], d[2]>>)]

\* the resize step run only when both width and height are present
resize_step_both(im, resize) ==
    IF is_some(resize.width) /\ is_some(resize.height)
    THEN dyn_resize(im, unwrap_or(resize.width, U16MAX),
                        unwrap_or(resize.height, U16MAX))
    ELSE im

\* the resize step of get_image
resize_step(im, resize) ==
    IF is_some(resize.width) \/ is_some(resize.height)
    THEN dyn_resize(im, unwrap_or(resize.width, U16MAX),
                        unwrap_or(resize.height, U16MAX))
    ELSE im

\* im.crop_imm(x, y, width, height): the rectangle is cut down to the image
crop_imm(im, x, y, width, height) ==
    LET x1 == Min(x, im.w)
        y1 == Min(y, im.h)
        h1 == Min(height, im.h - y1)
        w1 == Min(width, im.w - x1)
    IN  [im EXCEPT !.w = w1, !.h = h1,
                   !.ops = Append(im.ops, <<"crop", x1, y1, w1, h1>>)]

\* the crop step of get_image
crop_step(im, resize) ==
    IF \/ is_some(resize.cx) \/ is_some(resize.cy)
       \/ is_some(resize.cwidth) \/ is_some(resize.cheight)
    THEN crop_imm(im, unwrap_or(resize.cx, 0), unwrap_or(resize.cy, 0),
                      unwrap_or(resize.cwidth, U16MAX),
                      unwrap_or(resize.cheight, U16MAX))
    ELSE im

\* the match on the extension that picks the ImageFormat
encode_format(image) ==
    LET t == ImageType(image)
    IN  IF t = <<"j", "p", "g">> THEN "jpeg"
        ELSE IF t = <<"p", "n", "g">> THEN "png"
        ELSE IF t = <<"g", "i", "f">> THEN "gif"
        ELSE "jpeg"

\* webp::Encoder::from_image(&im) is an Err unless the raster is 8-bit RGB(A)
webp_from_image_ok(im) == im.color \in {"rgb8", "rgba8"}

\* im.write_to(&mut v, format) is an Err for a raster no container of that
\* format can hold: an empty one, or one beyond the 16-bit JPEG and GIF sizes
write_to_ok(im, fmt) ==
    /\ im.w > 0 /\ im.h > 0
    /\ fmt \in {"jpeg", "gif"} => (im.w <= U16MAX /\ im.h <= U16MAX)

\* the error value of each `?` of get_image
ErrOpen == "ImageNotFound"

ErrWebp == "ImageNotFound"

\* a write_to failure reported as an error of its own
ErrWrite_Distinct == "EncodeFailure"

ErrWrite == "ImageNotFound"

\* the encode step of get_image
encode_step(im, image, resize) ==
    IF WebpRequested(resize)
    THEN IF webp_from_image_ok(im)
         THEN [ok |-> TRUE, cause |-> "none", err |-> "none",
               bytes |-> [fmt |-> "webp",
                          quality |-> Some(unwrap_or(resize.quality, DefaultQuality)),
                          im |-> im]]
         ELSE [ok |-> FALSE, cause |-> "webp", err |-> ErrWebp, bytes |-> NoBytes]
    ELSE IF write_to_ok(im, encode_format(image))
         THEN [ok |-> TRUE, cause |-> "none", err |-> "none",
               bytes |-> [fmt |-> encode_format(image), quality |-> None, im |-> im]]
         ELSE [ok |-> FALSE, cause |-> "write", err |-> ErrWrite, bytes |-> NoBytes]

\* the else branch with the crop taken from the decoded image, before the
\* resize
miss_pipeline_crop_first(fs, image, resize) ==
    LET o == OpenImage(fs, image)
    IN  IF ~o.ok
        THEN [ok |-> FALSE, cause |-> "open", err |-> ErrOpen, bytes |-> NoBytes]
        ELSE encode_step(resize_step(crop_step(o.im, resize), resize), image, resize)

\* the else branch of get_image up to the encoded bytes
miss_pipeline(fs, image, resize) ==
    LET o == OpenImage(fs, image)
    IN  IF ~o.ok
        THEN [ok |-> FALSE, cause |-> "open", err |-> ErrOpen, bytes |-> NoBytes]
        ELSE encode_step(crop_step(resize_step(o.im, resize), resize), image, resize)

----------------------------------------------------------------------------
(* get_image's Result and the responses of the two handlers *)

OkResult(bytes) == [ok |-> TRUE, bytes |-> bytes, err |-> "none"]

ErrResult(e) == [ok |-> FALSE, bytes |-> NoBytes, err |-> e]

NoResult == [ok |-> FALSE, bytes |-> NoBytes, err |-> "none"]

NoHeaders == [content_type |-> None, cache_control |-> None]

NoResp == [status |-> 0, body |-> NoBytes, headers |-> NoHeaders]

\* the Content-Type axum gives a Vec<u8> body before the tuple's headers apply
OctetStream == <<"application/octet-stream">>

\* Result<Vec<u8>, ImageNotFound>::into_response: the bytes with 200, or
\* StatusCode::NOT_FOUND.into_response()
axum_result_response(res) ==
    IF res.ok
    THEN [status |-> 200, body |-> res.bytes,
          headers |-> [content_type |-> Some(OctetStream), cache_control |-> None]]
    ELSE [status |-> 404, body |-> NoBytes, headers |-> NoHeaders]

\* the axum handler's (headers, get_image(..)): the response of the Result
\* with the two headers of the HeaderMap set on it
axum_response(ct, res) ==
    [axum_result_response(res) EXCEPT
        !.headers = [content_type |-> Some(ct),
                     cache_control |-> Some(CACHE_CONTROL)]]

\* the poem handler answering a failure with 500 instead of 404
poem_response_500(ct, res) ==
    IF res.ok
    THEN [status |-> 200, body |-> res.bytes,
          headers |-> [content_type |-> IF HeaderValueOk(ct) THEN Some(ct) ELSE None,
                       cache_control |-> Some(CACHE_CONTROL)]]
    ELSE [status |-> 500, body |-> NoBytes, headers |-> NoHeaders]

\* the poem handler: map_err(|_| NOT_FOUND)?, else the built 200 response;
\* the builder leaves out a header whose value does not parse
poem_response(ct, res) ==
    IF res.ok
    THEN [status |-> 200, body |-> res.bytes,
          headers |-> [content_type |-> IF HeaderValueOk(ct) THEN Some(ct) ELSE None,
                       cache_control |-> Some(CACHE_CONTROL)]]
    ELSE [status |-> 404, body |-> NoBytes, headers |-> NoHeaders]

----------------------------------------------------------------------------
(* The served directory, the requests and the request tasks *)

\* bound on the number of requests
MaxCalls == 3

\* bound on the number of changes to the source directory
MaxFileOps == 1

A_JPG == <<"a", ".", "j", "p", "g">>

W1A_JPG == <<"w", "1", "a", ".", "j", "p", "g">>

B_PNG == <<"b", ".", "p", "n", "g">>

C_NOEXT == <<"c">>

D_LF == <<"d", ".", "\n">>

Images == {A_JPG, W1A_JPG, B_PNG, C_NOEXT, D_LF}

MissingFile == [state |-> "missing", cid |-> "none", color |-> "none", w |-> 0, h |-> 0]

CorruptFile == [state |-> "corrupt", cid |-> "none", color |-> "none", w |-> 0, h |-> 0]

ImageFile(cid, color, w, h) ==
    [state |-> "image", cid |-> cid, color |-> color, w |-> w, h |-> h]

InitFiles ==
    [i \in Images |->
        IF i = A_JPG THEN ImageFile("c1", "rgb8", 4, 2)
        ELSE IF i = B_PNG THEN ImageFile("c2", "luma8", 3, 3)
        ELSE IF i = C_NOEXT THEN ImageFile("c3", "rgb8", 2, 2)
        ELSE MissingFile]

\* what the environment may write into the directory
FileWrites ==
    { <<A_JPG, ImageFile("c4", "rgb8", 2, 4)>>, <<A_JPG, CorruptFile>> }

FileDeletes == {A_JPG}

Rq(image, resize) == [image |-> image, resize |-> resize]

Requests ==
    { Rq(A_JPG, EmptyResize),
      Rq(A_JPG, [EmptyResize EXCEPT !.webp = Some(TRUE)]),
      Rq(A_JPG, [EmptyResize EXCEPT !.webp = Some(FALSE)]),
      Rq(A_JPG, [EmptyResize EXCEPT !.webp = Some(FALSE), !.quality = Some(10)]),
      Rq(A_JPG, [EmptyResize EXCEPT !.width = Some(1)]),
      Rq(A_JPG, [EmptyResize EXCEPT !.cwidth = Some(0)]),
      Rq(A_JPG, [EmptyResize EXCEPT !.width = Some(2), !.cx = Some(1)]),
      Rq(W1A_JPG, EmptyResize),
      Rq(B_PNG, [EmptyResize EXCEPT !.webp = Some(TRUE)]),
      Rq(B_PNG, [EmptyResize EXCEPT !.quality = Some(10)]),
      Rq(C_NOEXT, EmptyResize),
      Rq(D_LF, EmptyResize) }

NoReq == Rq(<< >>, EmptyResize)

\* one request task per adapter; both routers share the cache (the
\* optimizer is Clone and its cache an Arc)
Tasks == {"axum", "poem"}

\* the response the task's handler builds from get_image's Result
handler_response(t, ct, res) ==
    IF t = "axum" THEN axum_response(ct, res) ELSE poem_response(ct, res)

\* an insert into a store that keeps a single entry and evicts the others
cache_insert_evicting(c, k, bytes) == [x \in {k} |-> bytes]

\* an insert into a store that keeps a second entry beside an existing one
\* instead of replacing it
cache_insert_duplicating(c, k, bytes) ==
    IF k \in DOMAIN c
    THEN [x \in (DOMAIN c) \cup {k \o <<"#">>} |-> IF x \in DOMAIN c THEN c[x] ELSE bytes]
    ELSE [x \in (DOMAIN c) \cup {k} |-> IF x = k THEN bytes ELSE c[x]]

\* self.cache.insert(key, bytes)
cache_insert(c, k, bytes) ==
    [x \in (DOMAIN c) \cup {k} |-> IF x = k THEN bytes ELSE c[x]]

\* the history of Ok returns for images whose file is as at start
Log(t, r, bytes) ==
    IF r.image \in modified
    THEN returned
    ELSE returned \cup {[image |-> r.image, resize |-> r.resize, bytes |-> bytes]}

MainInit ==
    /\ files = InitFiles
    /\ cache = [k \in {} |-> NoBytes]
    /\ pc = [t \in Tasks |-> "idle"]
    /\ req = [t \in Tasks |-> NoReq]
    /\ ctype = [t \in Tasks |-> << >>]
    /\ enc = [t \in Tasks |-> NoBytes]
    /\ result = [t \in Tasks |-> NoResult]
    /\ cause = [t \in Tasks |-> "none"]
    /\ resp = [t \in Tasks |-> NoResp]
    /\ ncalls = 0
    /\ nfileops = 0
    /\ returned = {}
    /\ everReadable = {i \in Images : InitFiles[i].state # "missing"}
    /\ modified = {}

Init ==
    /\ MainInit
    /\ kin = << >>
    /\ kout = << >>
    /\ kpc = "off"

\* a lookup that re-validates against the source file: an entry whose
\* file was replaced or deleted since start counts as absent
Call_Revalidating(t, r) ==
    /\ pc[t] \in {"idle", "done", "panicked"}
    /\ ncalls < MaxCalls
    /\ ncalls' = ncalls + 1
    /\ req' = [req EXCEPT ![t] = r]
    /\ ctype' = [ctype EXCEPT ![t] = parse_content_type(r.resize, r.image)]
    /\ enc' = [enc EXCEPT ![t] = NoBytes]
    /\ IF t = "axum" /\ ~HeaderValueOk(parse_content_type(r.resize, r.image))
       THEN /\ pc' = [pc EXCEPT ![t] = "panicked"]
            /\ result' = [result EXCEPT ![t] = NoResult]
            /\ cause' = [cause EXCEPT ![t] = "none"]
            /\ resp' = [resp EXCEPT ![t] = NoResp]
            /\ UNCHANGED returned
       ELSE IF key(r.image, r.resize) \in DOMAIN cache /\ r.image \notin modified
       THEN /\ pc' = [pc EXCEPT ![t] = "done"]
            /\ result' = [result EXCEPT ![t] = OkResult(cache[key(r.image, r.resize)])]
            /\ cause' = [cause EXCEPT ![t] = "hit"]
            /\ resp' = [resp EXCEPT ![t] =
                   handler_response(t, parse_content_type(r.resize, r.image),
                                    OkResult(cache[key(r.image, r.resize)]))]
            /\ returned' = Log(t, r, cache[key(r.image, r.resize)])
       ELSE /\ pc' = [pc EXCEPT ![t] = "miss"]
            /\ result' = [result EXCEPT ![t] = NoResult]
            /\ cause' = [cause EXCEPT ![t] = "none"]
            /\ resp' = [resp EXCEPT ![t] = NoResp]
            /\ UNCHANGED returned
    /\ UNCHANGED <<files, cache, nfileops, everReadable, modified, probeVars>>

\* A request arrives: the handler computes the content type (the axum
\* handler parses it into a header value and unwraps), then get_image looks
\* the key up and returns the stored bytes on a hit.
Call(t, r) ==
    /\ pc[t] \in {"idle", "done", "panicked"}
    /\ ncalls < MaxCalls
    /\ ncalls' = ncalls + 1
    /\ req' = [req EXCEPT ![t] = r]
    /\ ctype' = [ctype EXCEPT ![t] = parse_content_type(r.resize, r.image)]
    /\ enc' = [enc EXCEPT ![t] = NoBytes]
    /\ IF t = "axum" /\ ~HeaderValueOk(parse_content_type(r.resize, r.image))
       THEN /\ pc' = [pc EXCEPT ![t] = "panicked"]
            /\ result' = [result EXCEPT ![t] = NoResult]
            /\ cause' = [cause EXCEPT ![t] = "none"]
            /\ resp' = [resp EXCEPT ![t] = NoResp]
            /\ UNCHANGED returned
       ELSE IF key(r.image, r.resize) \in DOMAIN cache
       THEN /\ pc' = [pc EXCEPT ![t] = "done"]
            /\ result' = [result EXCEPT ![t] = OkResult(cache[key(r.image, r.resize)])]
            /\ cause' = [cause EXCEPT ![t] = "hit"]
            /\ resp' = [resp EXCEPT ![t] =
                   handler_response(t, parse_content_type(r.resize, r.image),
                                    OkResult(cache[key(r.image, r.resize)]))]
            /\ returned' = Log(t, r, cache[key(r.image, r.resize)])
       ELSE /\ pc' = [pc EXCEPT ![t] = "miss"]
            /\ result' = [result EXCEPT ![t] = NoResult]
            /\ cause' = [cause EXCEPT ![t] = "none"]
            /\ resp' = [resp EXCEPT ![t] = NoResp]
            /\ UNCHANGED returned
    /\ UNCHANGED <<files, cache, nfileops, everReadable, modified, probeVars>>

\* a pipeline run behind a per-key single-flight gate: a miss is parked while
\* another task holds encoded bytes for the same key that it has not inserted
RunPipeline_SingleFlight(t) ==
    /\ pc[t] = "miss"
    /\ LET out == miss_pipeline(files, req[t].image, req[t].resize)
       IN  IF \E u \in Tasks \ {t} :
                  /\ pc[u] = "insert"
                  /\ key(req[u].image, req[u].resize) = key(req[t].image, req[t].resize)
           THEN /\ pc' = [pc EXCEPT ![t] = "wait"]
                /\ UNCHANGED <<enc, result, cause, resp>>
           ELSE IF out.ok
           THEN /\ enc' = [enc EXCEPT ![t] = out.bytes]
                /\ pc' = [pc EXCEPT ![t] = "insert"]
                /\ UNCHANGED <<result, cause, resp>>
           ELSE /\ result' = [result EXCEPT ![t] = ErrResult(out.err)]
                /\ cause' = [cause EXCEPT ![t] = out.cause]
                /\ resp' = [resp EXCEPT ![t] =
                       handler_response(t, ctype[t], ErrResult(out.err))]
                /\ pc' = [pc EXCEPT ![t] = "done"]
                /\ UNCHANGED enc
    /\ UNCHANGED <<files, cache, req, ctype, ncalls, nfileops, returned,
                   everReadable, modified, probeVars>>

\* a pipeline run that memoizes its failure: an Err stores an empty entry
\* under the key
RunPipeline_MemoFail(t) ==
    /\ pc[t] = "miss"
    /\ LET out == miss_pipeline(files, req[t].image, req[t].resize)
       IN  IF out.ok
           THEN /\ enc' = [enc EXCEPT ![t] = out.bytes]
                /\ pc' = [pc EXCEPT ![t] = "insert"]
                /\ UNCHANGED <<result, cause, resp, cache>>
           ELSE /\ result' = [result EXCEPT ![t] = ErrResult(out.err)]
                /\ cause' = [cause EXCEPT ![t] = out.cause]
                /\ resp' = [resp EXCEPT ![t] =
                       handler_response(t, ctype[t], ErrResult(out.err))]
                /\ pc' = [pc EXCEPT ![t] = "done"]
                /\ cache' = [x \in (DOMAIN cache) \cup {key(req[t].image, req[t].resize)} |->
                                IF x = key(req[t].image, req[t].resize)
                                THEN NoBytes ELSE cache[x]]
                /\ UNCHANGED enc
    /\ UNCHANGED <<files, req, ctype, ncalls, nfileops, returned,
                   everReadable, modified, probeVars>>

\* On a miss: open and decode the file, resize, crop, encode.  An Err of
\* any step returns ImageNotFound and the handler answers.
RunPipeline(t) ==
    /\ pc[t] = "miss"
    /\ LET out == miss_pipeline(files, req[t].image, req[t].resize)
       IN  IF out.ok
           THEN /\ enc' = [enc EXCEPT ![t] = out.bytes]
                /\ pc' = [pc EXCEPT ![t] = "insert"]
                /\ UNCHANGED <<result, cause, resp>>
           ELSE /\ result' = [result EXCEPT ![t] = ErrResult(out.err)]
                /\ cause' = [cause EXCEPT ![t] = out.cause]
                /\ resp' = [resp EXCEPT ![t] =
                       handler_response(t, ctype[t], ErrResult(out.err))]
                /\ pc' = [pc EXCEPT ![t] = "done"]
                /\ UNCHANGED enc
    /\ UNCHANGED <<files, cache, req, ctype, ncalls, nfileops, returned,
                   everReadable, modified, probeVars>>

\* self.cache.insert(key(image, resize), bytes); Ok(bytes); the handler answers
Insert(t) ==
    /\ pc[t] = "insert"
    /\ cache' = cache_insert(cache, key(req[t].image, req[t].resize), enc[t])
    /\ result' = [result EXCEPT ![t] = OkResult(enc[t])]
    /\ cause' = [cause EXCEPT ![t] = "none"]
    /\ resp' = [resp EXCEPT ![t] = handler_response(t, ctype[t], OkResult(enc[t]))]
    /\ returned' = Log(t, req[t], enc[t])
    /\ pc' = [pc EXCEPT ![t] = "done"]
    /\ UNCHANGED <<files, req, ctype, enc, ncalls, nfileops, everReadable,
                   modified, probeVars>>

\* The environment replaces a source file.
WriteFile(i, f) ==
    /\ nfileops < MaxFileOps
    /\ files[i] # f
    /\ nfileops' = nfileops + 1
    /\ files' = [files EXCEPT ![i] = f]
    /\ everReadable' = everReadable \cup {i}
    /\ modified' = modified \cup {i}
    /\ UNCHANGED <<cache, pc, req, ctype, enc, result, cause, resp, ncalls,
                   returned, probeVars>>

\* The environment deletes a source file.
DeleteFile(i) ==
    /\ nfileops < MaxFileOps
    /\ files[i].state # "missing"
    /\ nfileops' = nfileops + 1
    /\ files' = [files EXCEPT ![i] = MissingFile]
    /\ modified' = modified \cup {i}
    /\ UNCHANGED <<cache, pc, req, ctype, enc, result, cause, resp, ncalls,
                   returned, everReadable, probeVars>>

Next ==
    \/ \E t \in Tasks : \E r \in Requests : Call(t, r)
    \/ \E t \in Tasks : RunPipeline(t)
    \/ \E t \in Tasks : Insert(t)
    \/ \E w \in FileWrites : WriteFile(w[1], w[2])
    \/ \E i \in FileDeletes : DeleteFile(i)

Spec == Init /\ [][Next]_vars

----------------------------------------------------------------------------
(* key and parse_content_type applied to two requests drawn at start *)

OptBool == {None, Some(TRUE), Some(FALSE)}

KeyFieldValues ==
    [webp : OptBool, quality : {None, Some(8)}, width : {None, Some(1), Some(11)},
     height : {None, Some(1)}, cx : {None, Some(1)}, cy : {None, Some(1)},
     cwidth : {None, Some(1)}, cheight : {None, Some(1)}]

NumericFields(r) == <<r.quality, r.width, r.height, r.cx, r.cy, r.cwidth, r.cheight>>

PresentCount(r) ==
    Cardinality({i \in 1..7 : is_some(NumericFields(r)[i])})
    + (IF is_some(r.webp) THEN 1 ELSE 0)

\* the Resize values probed: at most one field present, or all eight
KeyResizes == {r \in KeyFieldValues : PresentCount(r) <= 1 \/ PresentCount(r) = 8}

KeyInit ==
    /\ MainInit
    /\ kin \in [image1 : Images, resize1 : KeyResizes,
                image2 : Images, resize2 : KeyResizes]
    /\ kout = << >>
    /\ kpc = "in"

KeyProbe ==
    /\ kpc = "in"
    /\ kout' = [k1 |-> key(kin.image1, kin.resize1),
                k2 |-> key(kin.image2, kin.resize2),
                ct1 |-> parse_content_type(kin.resize1, kin.image1)]
    /\ kpc' = "out"
    /\ UNCHANGED <<kin, mainVars>>

SpecKey == KeyInit /\ [][KeyProbe]_vars

----------------------------------------------------------------------------
(* the resize and crop steps of get_image applied to a decoded image and a *)
(* Resize drawn at start                                                    *)

SourceWidths == {1, 3, 50, 200, 1000, 70000}

SourceHeights == {1, 3, 50, 150, 1000}

PipeResizes ==
    [webp : {None}, quality : {None},
     width : {None, Some(0), Some(1), Some(100)},
     height : {None, Some(0), Some(100)},
     cx : {None, Some(0), Some(2), Some(60)}, cy : {None, Some(0)},
     cwidth : {None, Some(0), Some(50)}, cheight : {None, Some(50)}]

Decoded(w, h) == [cid |-> "c1", color |-> "rgb8", w |-> w, h |-> h, ops |-> << >>]

PipeInit ==
    /\ MainInit
    /\ kin \in [im : {Decoded(w, h) : w \in SourceWidths, h \in SourceHeights},
                resize : PipeResizes]
    /\ kout = << >>
    /\ kpc = "in"

PipeResize ==
    /\ kpc = "in"
    /\ kout' = [resized |-> resize_step(kin.im, kin.resize), cropped |-> NoImage]
    /\ kpc' = "resized"
    /\ UNCHANGED <<kin, mainVars>>

PipeCrop ==
    /\ kpc = "resized"
    /\ kout' = [kout EXCEPT !.cropped = crop_step(kout.resized, kin.resize)]
    /\ kpc' = "cropped"
    /\ UNCHANGED <<kin, mainVars>>

PipeNext == PipeResize \/ PipeCrop

SpecPipe == PipeInit /\ [][PipeNext]_vars

----------------------------------------------------------------------------
(* Claims *)

\* the text after the last '.' of an image name that holds one
AfterLastDot(image) == SubSeq(image, LastIndexOf(image, ".") + 1, Len(image))

HasDot(image) == \E i \in 1..Len(image) : image[i] = "."

\* C1: for an unchanged source file and a fixed Resize, every successful
\* get_image(image, resize) returns the same bytes, whatever other fetches
\* ran on the optimizer.
C1_Determinism ==
    \A a \in returned : \A b \in returned :
        (a.image = b.image /\ a.resize = b.resize) => a.bytes = b.bytes

\* C2: for one image, two Resize values that differ in any field (absent or
\* present, webp true or false) have different keys.
C2_KeyDistinctForOneImage ==
    (kpc = "out" /\ kin.image1 = kin.image2 /\ kin.resize1 # kin.resize2)
        => kout.k1 # kout.k2

\* C3: two requests for different images have different keys, whatever
\* their Resize values are.
C3_KeyDistinctAcrossImages ==
    (kpc = "out" /\ kin.image1 # kin.image2) => kout.k1 # kout.k2

\* the container the extension of an image name stands for
ContainerOfExtension(image) ==
    IF ~HasDot(image) THEN "jpeg"
    ELSE IF AfterLastDot(image) = <<"p", "n", "g">> THEN "png"
    ELSE IF AfterLastDot(image) = <<"g", "i", "f">> THEN "gif"
    ELSE "jpeg"

\* C4: a successful get_image returns WebP bytes when webp = true is
\* requested, and otherwise bytes in the container of the image's extension
\* (jpg -> JPEG, png -> PNG, gif -> GIF, anything else -> JPEG), after any
\* earlier fetches.
C4_OutputFormat ==
    \A t \in Tasks :
        (pc[t] = "done" /\ result[t].ok) =>
            result[t].bytes.fmt =
                IF req[t].resize.webp = Some(TRUE) THEN "webp"
                ELSE ContainerOfExtension(req[t].image)

\* C5: parse_content_type is "image/webp" when webp is requested, otherwise
\* "image/" + the text after the last '.', and "image/jpg" when the image
\* name has no '.'.
C5_ContentType ==
    kpc = "out" =>
        kout.ct1 =
            IF kin.resize1.webp = Some(TRUE)
            THEN <<"i", "m", "a", "g", "e", "/", "w", "e", "b", "p">>
            ELSE IF HasDot(kin.image1)
            THEN <<"i", "m", "a", "g", "e", "/">> \o AfterLastDot(kin.image1)
            ELSE <<"i", "m", "a", "g", "e", "/", "j", "p", "g">>

\* C6: get_image for an image under whose name no file has ever existed
\* yields the not-found error, for every Resize and after any earlier
\* fetches; it never returns bytes.
C6_MissingFile ==
    \A t \in Tasks :
        (pc[t] = "done" /\ req[t].image \notin everReadable) =>
            (~result[t].ok /\ result[t].err = "ImageNotFound")

\* C7: every failure of get_image (file missing or undecodable, webp
\* encoder construction, non-webp encoder) is the one ImageNotFound outcome
\* without detail, and get_image fails in no other way.
C7_CollapsedError ==
    \A t \in Tasks :
        /\ (pc[t] = "done" /\ cause[t] \in {"open", "webp", "write"}) =>
               result[t] = [ok |-> FALSE, bytes |-> NoBytes, err |-> "ImageNotFound"]
        /\ (pc[t] = "done" /\ ~result[t].ok) =>
               (result[t].err = "ImageNotFound" /\ cause[t] \in {"open", "webp", "write"})

\* C7 witness: both encoders have failed, one in each task
C7_Witness ==
    /\ pc["axum"] = "done" /\ cause["axum"] = "write" /\ ~result["axum"].ok
    /\ pc["poem"] = "done" /\ cause["poem"] = "webp" /\ ~result["poem"].ok

\* C8: in both adapters a successful get_image gives 200 with the returned
\* bytes as body, the resolved Content-Type and the Cache-Control header;
\* a failed get_image gives 404 with an empty body.
C8_HttpMapping ==
    \A t \in Tasks :
        pc[t] = "done" =>
            IF result[t].ok
            THEN /\ resp[t].status = 200
                 /\ resp[t].body = result[t].bytes
                 /\ resp[t].headers.content_type =
                        Some(parse_content_type(req[t].resize, req[t].image))
                 /\ resp[t].headers.cache_control =
                        Some("public, max-age=31536000, immutable")
            ELSE /\ resp[t].status = 404
                 /\ resp[t].body = NoBytes

\* C8 witness: the axum handler has answered a success and the poem handler
\* a failure
C8_Witness ==
    /\ pc["axum"] = "done" /\ result["axum"].ok /\ resp["axum"].status = 200
    /\ pc["poem"] = "done" /\ ~result["poem"].ok /\ resp["poem"].status = 404

\* the aspect ratio of out is that of src within rounding: the cross
\* products differ by at most the longer source edge
SameAspect(src, out) ==
    /\ WideLeq(WideMul(out.w, src.h), WideAdd(WideMul(out.h, src.w), Max(src.w, src.h)))
    /\ WideLeq(WideMul(out.h, src.w), WideAdd(WideMul(out.w, src.h), Max(src.w, src.h)))

ResizeRequested(r) == r.width # None \/ r.height # None

BoxWidth(r) == IF r.width = None THEN 65535 ELSE r.width[1]

BoxHeight(r) == IF r.height = None THEN 65535 ELSE r.height[1]

\* C9 as stated: with width and/or height present the resized raster fits
\* inside the box (width or 65535, height or 65535) and keeps the source
\* aspect ratio within rounding; width = height = 100 on a larger source
\* gives a longer edge of at most 100; without width and height there is no
\* resize.
C9_FitsInsideBox ==
    kpc \in {"resized", "cropped"} =>
        IF ResizeRequested(kin.resize)
        THEN /\ kout.resized.w <= BoxWidth(kin.resize)
             /\ kout.resized.h <= BoxHeight(kin.resize)
             /\ SameAspect(kin.im, kout.resized)
             /\ (kin.resize.width = Some(100) /\ kin.resize.height = Some(100)
                 /\ kin.im.w > 100 /\ kin.im.h > 100)
                    => Max(kout.resized.w, kout.resized.h) <= 100
        ELSE kout.resized = kin.im

\* C9 amended: the resized raster fits inside the box with each bound
\* raised to at least 1 (a requested width or height of 0 gives a 1-pixel
\* edge); the rest as stated.
C9_FitsInsideBoxAtLeastOnePixel ==
    kpc \in {"resized", "cropped"} =>
        IF ResizeRequested(kin.resize)
        THEN /\ kout.resized.w <= Max(BoxWidth(kin.resize), 1)
             /\ kout.resized.h <= Max(BoxHeight(kin.resize), 1)
             /\ SameAspect(kin.im, kout.resized)
             /\ (kin.resize.width = Some(100) /\ kin.resize.height = Some(100)
                 /\ kin.im.w > 100 /\ kin.im.h > 100)
                    => Max(kout.resized.w, kout.resized.h) <= 100
        ELSE kout.resized = kin.im

\* C9 witness: a 200x150 source resized into 100x100 has become 100x75
C9_Witness ==
    /\ kpc = "resized"
    /\ kin.im.w = 200 /\ kin.im.h = 150
    /\ kin.resize.width = Some(100) /\ kin.resize.height = Some(100)
    /\ kout.resized.w = 100 /\ kout.resized.h = 75

CropRequested(r) ==
    r.cx # None \/ r.cy # None \/ r.cwidth # None \/ r.cheight # None

\* C10: with any of cx, cy, cwidth, cheight present the output is the
\* rectangle at (cx or 0, cy or 0) of size (cwidth or the remaining extent,
\* cheight or the remaining extent) clamped to the image; cx = cy = 0 and
\* cwidth = cheight = 50 on an image of at least 50x50 gives exactly 50x50.
C10_CropRectangle ==
    kpc = "cropped" =>
        LET im == kout.resized
            r  == kin.resize
            x  == Min(IF r.cx = None THEN 0 ELSE r.cx[1], im.w)
            y  == Min(IF r.cy = None THEN 0 ELSE r.cy[1], im.h)
            w  == IF r.cwidth = None THEN im.w - x ELSE Min(r.cwidth[1], im.w - x)
            h  == IF r.cheight = None THEN im.h - y ELSE Min(r.cheight[1], im.h - y)
        IN  IF CropRequested(r)
            THEN /\ kout.cropped.w = w
                 /\ kout.cropped.h = h
                 /\ kout.cropped.ops = Append(im.ops, <<"crop", x, y, w, h>>)
                 /\ (r.cx = Some(0) /\ r.cy = Some(0) /\ r.cwidth = Some(50)
                     /\ r.cheight = Some(50) /\ im.w >= 50 /\ im.h >= 50)
                        => (kout.cropped.w = 50 /\ kout.cropped.h = 50)
            ELSE kout.cropped = im

\* C11: once a key is in the cache, the bytes stored under it never change,
\* under any interleaving of get_image calls.
C11_EntriesNeverMutated ==
    [][\A k \in DOMAIN cache : k \in DOMAIN cache' => cache'[k] = cache[k]]_vars

\* C12: the set of keys in the cache only grows, and a lookup ends as a miss
\* only for a key that is not in the cache, so every lookup of an inserted
\* key is a hit.
C12_NoEviction ==
    [][/\ DOMAIN cache \subseteq DOMAIN cache'
       /\ \A t \in Tasks :
              (pc[t] # "miss" /\ pc'[t] = "miss") =>
                  key(req'[t].image, req'[t].resize) \notin DOMAIN cache]_vars

\* C12 witness: two keys have been inserted and a later lookup was a hit
C12_Witness ==
    /\ Cardinality(DOMAIN cache) >= 2
    /\ \E t \in Tasks :
           /\ pc[t] = "done" /\ cause[t] = "hit" /\ result[t].ok
           /\ key(req[t].image, req[t].resize) \in DOMAIN cache

\* the step is a lookup by task t: a call is counted and no other task moves
LookupBy(t) ==
    /\ ncalls' = ncalls + 1
    /\ pc[t] \in {"idle", "done", "panicked"}
    /\ \A u \in Tasks \ {t} :
           /\ pc'[u] = pc[u] /\ req'[u] = req[u]
           /\ result'[u] = result[u] /\ resp'[u] = resp[u]

\* C13: when the key of a request is already in the cache, the lookup ends at
\* once with the stored bytes, unchanged, whatever the state of the source
\* file (replaced, corrupt or deleted), and touches neither file nor cache.
C13_StaleHit ==
    [][(ncalls' # ncalls) =>
         \E t \in Tasks :
            /\ LookupBy(t)
            /\ (/\ key(req'[t].image, req'[t].resize) \in DOMAIN cache
                /\ pc'[t] # "panicked")
                  => /\ pc'[t] = "done"
                     /\ result'[t] =
                            OkResult(cache[key(req'[t].image, req'[t].resize)])
                     /\ resp'[t].status = 200
                     /\ resp'[t].body = cache[key(req'[t].image, req'[t].resize)]
                     /\ cache' = cache
                     /\ files' = files]_vars

\* C13 witness: a fetch of a.jpg repeated after the file was deleted or
\* replaced was answered with the bytes encoded from the first content
C13_Witness ==
    \E t \in Tasks :
        /\ pc[t] = "done" /\ cause[t] = "hit" /\ result[t].ok
        /\ req[t].image = A_JPG
        /\ A_JPG \in modified
        /\ files[A_JPG].cid # "c1"
        /\ result[t].bytes.im.cid = "c1"
        /\ resp[t].status = 200

\* C14: nothing serializes or coalesces the pipeline per key: a lookup of a key
\* absent from the cache observes a miss whatever the other call is doing, and
\* every call that observed a miss runs the whole pipeline itself on the file
\* as it is, ending with its own encoded bytes or with its own error.
C14_NoSingleFlight ==
    [][/\ (ncalls' # ncalls) =>
             \E t \in Tasks :
                /\ LookupBy(t)
                /\ (/\ key(req'[t].image, req'[t].resize) \notin DOMAIN cache
                    /\ pc'[t] # "panicked") => pc'[t] = "miss"
       /\ \A t \in Tasks :
             (pc[t] = "miss" /\ pc'[t] # "miss") =>
                 LET out == miss_pipeline(files, req[t].image, req[t].resize)
                 IN  IF out.ok
                     THEN pc'[t] = "insert" /\ enc'[t] = out.bytes
                     ELSE pc'[t] = "done" /\ result'[t] = ErrResult(out.err)]_vars

\* C14 witness: two first-time calls for one identical request have both
\* missed and both run the whole pipeline, and neither insert has landed
C14_Witness ==
    /\ \A t \in Tasks : pc[t] = "insert" /\ enc[t].fmt # "none"
    /\ req["axum"] = req["poem"]
    /\ key(req["axum"].image, req["axum"].resize) \notin DOMAIN cache
    /\ ncalls = 2

\* every call made so far was for request r and no source file was touched
OnlyRequest(r) ==
    /\ modified = {}
    /\ \A t \in Tasks : req[t] \in {r, NoReq}
    /\ \A e \in returned : e.image = r.image /\ e.resize = r.resize

\* C15: while every call made is for one same request r and the source files
\* are unchanged, under every interleaving all calls return the same bytes,
\* all encoded bytes waiting for their insert are those bytes too, and the
\* cache holds no entry but the one under key(r), whose value is those bytes.
C15_NonCorrupting ==
    \A r \in Requests :
        OnlyRequest(r) =>
            LET k == key(r.image, r.resize)
                out == {e.bytes : e \in returned}
                        \cup {enc[t] : t \in {u \in Tasks : pc[u] = "insert"}}
                        \cup {cache[x] : x \in DOMAIN cache}
            IN  /\ Cardinality(out) <= 1
                /\ DOMAIN cache \subseteq {k}
                /\ \A t \in Tasks :
                       (pc[t] = "done" /\ result[t].ok) =>
                           /\ k \in DOMAIN cache
                           /\ cache[k] = result[t].bytes
                           /\ result[t].bytes \in out

\* C15 witness: two concurrent calls for one request both missed, both
\* inserted, both returned, and the cache holds one entry with their bytes
C15_Witness ==
    /\ \E r \in Requests : OnlyRequest(r) /\ req["axum"] = r /\ req["poem"] = r
    /\ \A t \in Tasks : pc[t] = "done" /\ result[t].ok /\ cause[t] = "none"
    /\ result["axum"].bytes = result["poem"].bytes
    /\ Cardinality(DOMAIN cache) = 1
    /\ ncalls = 2

\* C16: a step in which get_image returns ImageNotFound leaves the cache as it
\* was, and the cache changes only by the insert of a call whose pipeline
\* succeeded, which stores the bytes it returns; so a failure stores nothing
\* and a call that ends in a failure had missed and run the pipeline.
C16_FailureNotMemoized ==
    [][/\ \A t \in Tasks :
             (pc[t] = "miss" /\ pc'[t] = "done") =>
                 /\ ~result'[t].ok /\ result'[t].err = "ImageNotFound"
                 /\ resp'[t].status = 404
                 /\ cache' = cache
       /\ \A t \in Tasks :
             (pc'[t] = "done" /\ ~result'[t].ok /\ pc[t] # "done") =>
                 pc[t] = "miss"
       /\ (cache' # cache) =>
             \E t \in Tasks :
                /\ pc[t] = "insert" /\ pc'[t] = "done"
                /\ result'[t].ok /\ result'[t].bytes.fmt # "none"
                /\ cache' = cache_insert(cache, key(req[t].image, req[t].resize),
                                         result'[t].bytes)]_vars

\* C16 witness: beside an entry made by a successful call, a call has failed
\* and its key is absent, and an identical later request has missed in turn
C16_Witness ==
    /\ DOMAIN cache # {}
    /\ pc["axum"] = "done" /\ ~result["axum"].ok
    /\ result["axum"].err = "ImageNotFound"
    /\ key(req["axum"].image, req["axum"].resize) \notin DOMAIN cache
    /\ req["poem"] = req["axum"]
    /\ pc["poem"] = "miss"

\* the operations recorded on an encoded raster follow the order of the
\* pipeline for resize r on the decoded file f: a resize first, only when
\* width or height is present; a crop after it, only when a crop field is
\* present, with its rectangle taken inside the resized raster
StepsInOrder(b, f, r) ==
    LET ops == b.im.ops
        nR  == IF ResizeRequested(r) THEN 1 ELSE 0
        nC  == IF CropRequested(r) THEN 1 ELSE 0
        pw  == IF nR = 1 THEN ops[1][2] ELSE f.w
        ph  == IF nR = 1 THEN ops[1][3] ELSE f.h
    IN  /\ f.state = "image" /\ b.im.cid = f.cid
        /\ Len(ops) = nR + nC
        /\ nR = 1 => ops[1][1] = "resize"
        /\ nC = 1 =>
              LET c == ops[nR + 1]
                  x == IF r.cx = None THEN 0 ELSE r.cx[1]
                  y == IF r.cy = None THEN 0 ELSE r.cy[1]
              IN  /\ c[1] = "crop"
                  /\ c[2] = Min(x, pw) /\ c[3] = Min(y, ph)
                  /\ c[2] + c[4] <= pw /\ c[3] + c[5] <= ph
                  /\ r.cwidth = None => c[2] + c[4] = pw
                  /\ r.cheight = None => c[3] + c[5] = ph
                  /\ b.im.w = c[4] /\ b.im.h = c[5]
        /\ (nC = 0) => (b.im.w = pw /\ b.im.h = ph)
        /\ b.fmt # "none"

\* C17: a miss that reaches the insert has decoded the file, resized only if
\* width or height is present, cropped only if a crop field is present and
\* inside the post-resize raster, and encoded last; the cache is written only
\* by a call that holds successfully encoded bytes, and with those bytes.
C17_StepOrder ==
    [][/\ \A t \in Tasks :
             (pc[t] = "miss" /\ pc'[t] = "insert") =>
                 StepsInOrder(enc'[t], files[req[t].image], req[t].resize)
       /\ \A t \in Tasks :
             (pc[t] = "miss" /\ pc'[t] # "miss") => cache' = cache
       /\ (cache' # cache) =>
             \E t \in Tasks :
                /\ pc[t] = "insert" /\ pc'[t] = "done" /\ enc[t].fmt # "none"
                /\ key(req[t].image, req[t].resize) \in DOMAIN cache'
                /\ cache'[key(req[t].image, req[t].resize)] = enc[t]]_vars

\* C17 witness: a.jpg (4x2) asked with width 2 and cx 1 was resized to 2x1 and
\* then cropped at x = 1 of the resized raster, leaving 1x1, and encoded
C17_Witness ==
    \E t \in Tasks :
        /\ pc[t] = "insert"
        /\ req[t] = Rq(A_JPG, [EmptyResize EXCEPT !.width = Some(2), !.cx = Some(1)])
        /\ enc[t].im.ops = << <<"resize", 2, 1>>, <<"crop", 1, 0, 1, 1>> >>
        /\ enc[t].im.w = 1 /\ enc[t].im.h = 1
        /\ enc[t].fmt = "jpeg"

\* C18: two successful requests for one image that do not ask for webp and
\* differ only in quality have different keys and return the same bytes,
\* after any earlier fetches.
C18_QualityIrrelevance ==
    \A a \in returned : \A b \in returned :
        (/\ a.image = b.image
         /\ a.resize.webp # Some(TRUE) /\ b.resize.webp # Some(TRUE)
         /\ a.resize.quality # b.resize.quality
         /\ [a.resize EXCEPT !.quality = None] = [b.resize EXCEPT !.quality = None])
            => /\ key(a.image, a.resize) # key(b.image, b.resize)
               /\ a.bytes = b.bytes

\* the encoding a content type names
EncodingNamed(ct) ==
    IF ct = ImagePrefix \o <<"w", "e", "b", "p">> THEN "webp"
    ELSE IF ct = ImagePrefix \o <<"j", "p", "g">> THEN "jpeg"
    ELSE IF ct = ImagePrefix \o <<"j", "p", "e", "g">> THEN "jpeg"
    ELSE IF ct = ImagePrefix \o <<"p", "n", "g">> THEN "png"
    ELSE IF ct = ImagePrefix \o <<"g", "i", "f">> THEN "gif"
    ELSE "unknown"

\* C19: the Content-Type of every 200 response names the encoding of the bytes
\* in its body: image/webp only with WebP bytes, image/<ext> only with bytes
\* in the container of <ext>, after any earlier fetches.
C19_ContentTypeNamesEncoding ==
    \A t \in Tasks :
        (pc[t] = "done" /\ resp[t].status = 200) =>
            /\ is_some(resp[t].headers.content_type)
            /\ EncodingNamed(resp[t].headers.content_type[1]) = resp[t].body.fmt

\* C20: a 404 response carries neither Cache-Control nor Content-Type, from
\* the axum handler as from the poem handler; the two headers are on 200
\* responses only.
C20_HeadersOnlyOn200 ==
    \A t \in Tasks :
        (pc[t] = "done" /\ resp[t].status = 404) => resp[t].headers = NoHeaders

====
